---------------------------- MODULE Spec2Model ----------------------------
(***************************************************************************)
(* Chemyx syringe pump controller: the parameter cache wrapped around the  *)
(* vendor connection (CachedConnection), the step interpreter that runs a  *)
(* program on a worker thread (StepExecutor), and the program file         *)
(* (save_program / load_program) of src/my_chemyx_gui.py.                   *)
(***************************************************************************)
EXTENDS Integers, Sequences, FiniteSets, TLC

VARIABLES
    \* ---- CachedConnection and the wrapped vendor connection
    cache,          \* CachedConnection.cache: cache key -> parameter value
    multipump,      \* connection.multipump
    currentPump,    \* connection.currentPump
    \* ---- history of the calls made through the wrapper (observation only)
    lastCall,       \* the most recent call made through the wrapper
    reached,        \* method -> parameter value of its latest call that invoked hardware
    completed,      \* cache key -> parameter value of its latest call hardware completed
    sinceReset,     \* methods called since the latest reset_cache
    preReset,       \* the cache as it was when reset_cache was last called
    resetSeen,      \* reset_cache has been called
    ncalls,         \* number of calls made through the wrapper
    called,         \* the connection methods this behaviour calls
    \* ---- StepExecutor
    steps,          \* StepExecutor.steps (the list MyChemyxGUI.steps)
    step_read,      \* execute_steps' local 'step': the step read at line 145
    current_step,   \* StepExecutor.current_step (0-based)
    loop_stack,     \* StepExecutor.loop_stack
    stop_event,     \* StepExecutor.stop_event
    pause_event,    \* StepExecutor.pause_event
    pc,             \* where the worker thread is in execute_steps
    op,             \* the arguments of the _execute_pump_operation under way
    notes,          \* the notifications emitted, in order
    req,            \* the worker's calls on the connection wrapper, in order
    uiCalls,        \* connection methods called by stop() and pause()
    stopInWindow,   \* stop() was first called between the loop test and the emit
    stopWhilePaused,\* stop() was first called while the run was paused
    \* ---- the program file
    file,           \* the tokens of the file save_program wrote (<<>>: no file)
    fileIsStepsFile,\* the path chosen in the dialogs is self.steps_file itself
    saved,          \* the latest save_program: the list it saved, still on disk?
    lastOp,         \* the latest GUI operation on the step list
    \* ---- MyChemyxGUI, on the UI thread
    connected,      \* MyChemyxGUI.connected
    is_running,     \* MyChemyxGUI.is_running
    is_paused,      \* MyChemyxGUI.is_paused
    handled,        \* how many of the notifications the UI thread has handled
    uipc,           \* where the UI thread is inside a handler ("idle": in none)
    uiop,           \* the _execute_pump_operation the UI thread has under way
    uiSent,         \* the connection method the latest UI handler invoked on hardware last
    uiInInit,       \* methods the UI thread got cached between the run's reset and its init calls
    stale,          \* play_program started a worker while an earlier one still ran
    \* ---- ChemyxPumpGUI (vendor GUI, gui_dev.py)
    vConnected,     \* ChemyxPumpGUI.connected
    isRunning,      \* ChemyxPumpGUI.isRunning
    pauseBtn,       \* text of ChemyxPumpGUI.pauseBtn
    vCalls          \* the calls made on ChemyxPumpGUI.CONNECTION, in order

cacheVars == <<cache, multipump, currentPump>>
histVars  == <<lastCall, reached, completed, sinceReset, preReset, resetSeen, ncalls,
              called>>
runVars   == <<steps, step_read, current_step, loop_stack, stop_event, pause_event, pc, op,
              notes, req, uiCalls, stopInWindow, stopWhilePaused>>
fileVars  == <<file, fileIsStepsFile, saved, lastOp>>
guiVars   == <<connected, is_running, is_paused, handled, uipc, uiop, uiSent,
              uiInInit, stale>>
vendorVars == <<vConnected, isRunning, pauseBtn, vCalls>>
vars == <<cacheVars, histVars, runVars, fileVars, guiVars, vendorVars>>

\* The local 'step' of execute_steps before line 145 has bound it.
NoStep == << >>

\* ------------------------------------------------------------------ bounds
MaxCalls == 3       \* calls made through the wrapper in one behaviour

\* ------------------------------------------------- values passed to methods
\* A Python value passed to a connection method: a scalar, a list or a tuple.
Scalar(n)   == [kind |-> "scalar", items |-> <<n>>]
PyList(s)   == [kind |-> "list",   items |-> s]
PyTuple(s)  == [kind |-> "tuple",  items |-> s]

\* The (args, kwargs) of the calls the model makes.
ArgChoices ==
    { [args |-> <<Scalar(1)>>,          kwargs |-> {}],
      [args |-> <<PyList(<<1, 2>>)>>,   kwargs |-> {}],
      [args |-> <<>>,                   kwargs |-> {<<"value", PyTuple(<<1, 2>>)>>}] }

\* The pump indices of a multipump connection.
Pumps == {1, 2}

\* The sets of methods one behaviour calls: every method alone, and two
\* methods together (two cached ones, a cached one and a pass-through one).
CalledSets ==
    { {m} : m \in {"setUnits", "setDiameter", "setVolume", "setMode", "setRate",
                   "setDelay", "setTime", "setPump", "startPump", "stopPump",
                   "pausePump", "getParameters", "closeConnection"} }
    \cup { {"setRate", "setMode"}, {"setRate", "startPump"} }

\* ---------------------------------------------------------- CachedConnection
cacheable_methods ==
    {"setUnits", "setDiameter", "setVolume", "setMode", "setRate",
     "setDelay", "setTime", "setPump"}

\* The other methods of the vendor connection the program calls.
PassThroughMethods ==
    {"startPump", "stopPump", "pausePump", "getParameters", "closeConnection"}

ConnectionMethods == cacheable_methods \cup PassThroughMethods

\* _make_cache_key: the method name, suffixed by the pump index when the
\* connection is a multipump one (index 0 stands for "no suffix").
MakeCacheKey(name, mp, cur) == IF mp THEN <<name, cur>> ELSE <<name, 0>>

\* make_hashable: a list becomes a tuple; a tuple or a scalar stays.
MakeHashable(item) ==
    IF item.kind = "list" THEN PyTuple(item.items) ELSE item

\* _make_param_value: (tuple of hashable args, sorted tuple of (k, hashable v)).
\* The sorted tuple of a dict's items is canonical for the set of its items.
MakeParamValue(args, kwargs) ==
    << [i \in 1..Len(args) |-> MakeHashable(args[i])],
       { <<kv[1], MakeHashable(kv[2])>> : kv \in kwargs } >>

\* cached_method, line 87: the cache holds exactly this value under this key.
CacheHitAnyValue(c, key, pv) == key \in DOMAIN c
CacheHit(c, key, pv) == key \in DOMAIN c /\ c[key] = pv

\* self.cache[cache_key] = param_value
CachePut(c, key, pv) ==
    [k \in DOMAIN c \cup {key} |-> IF k = key THEN pv ELSE c[k]]

\* __getattr__, line 79: is the call intercepted at all?
IsCacheableAll(name) == TRUE
IsCacheable(name) == name \in cacheable_methods

\* reset_cache: self.cache.clear()
ResetCacheKeepsAll(c) == c
ResetCacheValue(c) == << >>

\* One call name(*args, **kwargs) through the wrapper, against cache c.
\* hwOk: the vendor method returns (TRUE) or raises (FALSE) if it is invoked.
\* Result: the new cache, whether hardware was invoked, whether the call
\* raised, and what it returned ("None" on a hit, the vendor's result else).
WrapperCallStoresFirst(c, mp, cur, name, args, kwargs, hwOk) ==
    LET key == MakeCacheKey(name, mp, cur)
        pv  == MakeParamValue(args, kwargs)
    IN  IF ~IsCacheable(name)
        THEN [cache |-> c, invoked |-> TRUE, raised |-> ~hwOk,
              result |-> IF hwOk THEN "result" ELSE "raised"]
        ELSE IF CacheHit(c, key, pv)
        THEN [cache |-> c, invoked |-> FALSE, raised |-> FALSE, result |-> "None"]
        ELSE [cache |-> CachePut(c, key, pv), invoked |-> TRUE, raised |-> ~hwOk,
              result |-> IF hwOk THEN "result" ELSE "raised"]
WrapperCall(c, mp, cur, name, args, kwargs, hwOk) ==
    LET key == MakeCacheKey(name, mp, cur)
        pv  == MakeParamValue(args, kwargs)
    IN  IF ~IsCacheable(name)
        THEN [cache |-> c, invoked |-> TRUE, raised |-> ~hwOk,
              result |-> IF hwOk THEN "result" ELSE "raised"]
        ELSE IF CacheHit(c, key, pv)
        THEN [cache |-> c, invoked |-> FALSE, raised |-> FALSE, result |-> "None"]
        ELSE IF hwOk
        THEN [cache |-> CachePut(c, key, pv), invoked |-> TRUE, raised |-> FALSE,
              result |-> "result"]
        ELSE [cache |-> c, invoked |-> TRUE, raised |-> TRUE, result |-> "raised"]

\* --------------------------------------------------------------- step records
\* A JSON/Python value of a step parameter: an int, a float, or a string that
\* is not a number (float() and int() raise ValueError on it).
IntV(n)   == [t |-> "int",   v |-> n]
FloatV(n) == [t |-> "float", v |-> n]
StrV(n)   == [t |-> "str",   v |-> n]

\* float(x) and int(x): the number, or a ValueError.
PyFloat(x) == [ok |-> x.t # "str", v |-> x.v]
PyInt(x)   == [ok |-> x.t # "str", v |-> x.v]

\* params.get(k, default)
ParamsGet(params, k, default) == IF k \in DOMAIN params THEN params[k] ELSE default

Abs(n) == IF n < 0 THEN -n ELSE n

\* config['diameter'] (28.6 mm, kept as a whole number)
Diameter == 28

\* No program file is in play.
NoFile ==
    /\ file = << >> /\ fileIsStepsFile = FALSE
    /\ saved = [steps |-> << >>, valid |-> FALSE] /\ lastOp = "none"

NoOp == [volume60 |-> 0, rate |-> 0, wait |-> FALSE, sleep |-> 0]

\* The arguments of a _execute_pump_operation that handler `by` runs.
UiOp(by, o) == [by |-> by, volume60 |-> o.volume60, rate |-> o.rate, wait |-> o.wait]
NoUiOp == UiOp("none", NoOp)

\* The main window is not in play: never connected, no handler under way.
NoGui ==
    /\ connected = FALSE /\ is_running = FALSE /\ is_paused = FALSE
    /\ handled = 0 /\ uipc = "idle" /\ uiop = NoUiOp /\ uiSent = ""
    /\ uiInInit = {}
    /\ stale = FALSE

\* The vendor GUI is not in play.
NoVendor ==
    /\ vConnected = FALSE /\ isRunning = FALSE /\ pauseBtn = "Pause"
    /\ vCalls = << >>

\* ------------------------------------------------- the cache as a state machine
NoCall ==
    [name |-> "none", pv |-> << <<>>, {} >>, key |-> <<"none", 0>>,
     invoked |-> FALSE, raised |-> FALSE, result |-> "None",
     prevReached |-> {}, prevCompleted |-> {}, cacheKept |-> TRUE,
     cacheWasEmpty |-> TRUE, repeated |-> FALSE, retry |-> FALSE,
     first |-> FALSE, afterReset |-> FALSE, preResetValue |-> {}]

ValueAt(f, k) == IF k \in DOMAIN f THEN {f[k]} ELSE {}

InitCache ==
    /\ cache = << >>
    /\ multipump \in BOOLEAN
    /\ currentPump = 1
    /\ lastCall = NoCall
    /\ reached = << >>
    /\ completed = << >>
    /\ sinceReset = {}
    /\ preReset = << >>
    /\ resetSeen = FALSE
    /\ ncalls = 0
    /\ called \in CalledSets
    /\ steps = << >> /\ step_read = NoStep /\ current_step = 0 /\ loop_stack = << >>
    /\ stop_event = FALSE /\ pause_event = FALSE
    /\ pc = "none" /\ op = NoOp /\ notes = << >> /\ req = << >> /\ uiCalls = {}
    /\ stopInWindow = FALSE
    /\ stopWhilePaused = FALSE
    /\ NoFile
    /\ NoGui
    /\ NoVendor

\* A call of any connection method through the wrapper.
CallMethod ==
    /\ ncalls < MaxCalls
    /\ \E name \in called, a \in ArgChoices, hwOk \in BOOLEAN :
         LET r   == WrapperCall(cache, multipump, currentPump, name,
                                a.args, a.kwargs, hwOk)
             key == MakeCacheKey(name, multipump, currentPump)
             pv  == MakeParamValue(a.args, a.kwargs)
         IN  /\ cache' = r.cache
             /\ lastCall' =
                  [name |-> name, pv |-> pv, key |-> key,
                   invoked |-> r.invoked, raised |-> r.raised, result |-> r.result,
                   prevReached |-> ValueAt(reached, name),
                   prevCompleted |-> ValueAt(completed, key),
                   cacheKept |-> (r.cache = cache),
                   cacheWasEmpty |-> (DOMAIN cache = {}),
                   repeated |-> (lastCall.name = name /\ lastCall.pv = pv),
                   retry |-> (/\ lastCall.name = name /\ lastCall.pv = pv
                              /\ lastCall.key = key /\ lastCall.raised),
                   first |-> name \notin sinceReset,
                   afterReset |-> resetSeen,
                   preResetValue |-> ValueAt(preReset, key)]
             /\ reached' = IF r.invoked THEN CachePut(reached, name, pv) ELSE reached
             /\ completed' = IF r.invoked /\ ~r.raised
                             THEN CachePut(completed, key, pv) ELSE completed
             /\ sinceReset' = sinceReset \cup {name}
    /\ ncalls' = ncalls + 1
    /\ UNCHANGED <<multipump, currentPump, preReset, resetSeen, called, runVars, fileVars, guiVars, vendorVars>>

\* reset_cache()
ResetCache ==
    /\ cache' = ResetCacheValue(cache)
    /\ preReset' = cache
    /\ resetSeen' = TRUE
    /\ reached' = << >>
    /\ completed' = << >>
    /\ sinceReset' = {}
    /\ UNCHANGED <<multipump, currentPump, lastCall, ncalls, called, runVars,
                   fileVars, guiVars, vendorVars>>

\* __setattr__: wrapper.currentPump = p is passed to the wrapped connection.
SetCurrentPump ==
    /\ multipump
    /\ \E p \in Pumps : p # currentPump /\ currentPump' = p
    /\ UNCHANGED <<cache, multipump, histVars, runVars, fileVars, guiVars, vendorVars>>

NextCache == CallMethod \/ ResetCache \/ SetCurrentPump

SpecCache == InitCache /\ [][NextCache]_vars

\* ------------------------------------------------------------- StepExecutor
\* The steps a program is made of.
WaitStep(t)       == [function |-> "wait", params |-> [time |-> t]]
PumpVolumeStep(v, r) ==
    [function |-> "pump_volume", params |-> [volume |-> v, rate |-> r]]
PumpTimeStep(t, r) ==
    [function |-> "pump_time", params |-> [time |-> t, rate |-> r]]
StartLoopStep(n)  == [function |-> "start_loop", params |-> [iterations |-> n]]
EndLoopStep       == [function |-> "end_loop", params |-> << >>]
\* Records a loaded program file may hold: no 'function', no 'params'.
NoFunctionStep    == [params |-> [time |-> FloatV(1)]]
NoParamsStep      == [function |-> "wait"]

\* The programs of 1..n steps over an alphabet of steps.
Programs(alphabet, n) == UNION { [1..k -> alphabet] : k \in 1..n }

\* start_loop: push a frame for the loop that starts at the current step.
StartLoopAtNextStep(stack, cur, iterations) ==
    Append(stack, [start_index |-> cur + 1, iterations |-> iterations,
                   current_iteration |-> 0])
StartLoop(stack, cur, iterations) ==
    Append(stack, [start_index |-> cur, iterations |-> iterations,
                   current_iteration |-> 0])

\* end_loop: count an iteration of the top frame; rewind to its start_loop
\* while the count is below the target, else pop the frame.
EndLoopRunsOnceMore(stack, cur) ==
    IF stack = << >>
    THEN [current_step |-> cur, loop_stack |-> stack]
    ELSE LET n   == Len(stack)
             it  == stack[n].current_iteration + 1
         IN  IF it <= stack[n].iterations
             THEN [current_step |-> stack[n].start_index,
                   loop_stack |-> [stack EXCEPT ![n].current_iteration = it]]
             ELSE [current_step |-> cur, loop_stack |-> SubSeq(stack, 1, n - 1)]
EndLoopOnBottomFrame(stack, cur) ==
    IF stack = << >>
    THEN [current_step |-> cur, loop_stack |-> stack]
    ELSE LET it == stack[1].current_iteration + 1
         IN  IF it < stack[1].iterations
             THEN [current_step |-> stack[1].start_index,
                   loop_stack |-> [stack EXCEPT ![1].current_iteration = it]]
             ELSE [current_step |-> cur, loop_stack |-> SubSeq(stack, 2, Len(stack))]
EndLoopEmptySkips(stack, cur) ==
    IF stack = << >>
    THEN [current_step |-> cur + 1, loop_stack |-> stack]
    ELSE LET n   == Len(stack)
             it  == stack[n].current_iteration + 1
         IN  IF it < stack[n].iterations
             THEN [current_step |-> stack[n].start_index,
                   loop_stack |-> [stack EXCEPT ![n].current_iteration = it]]
             ELSE [current_step |-> cur, loop_stack |-> SubSeq(stack, 1, n - 1)]
EndLoopUntilEqual(stack, cur) ==
    IF stack = << >>
    THEN [current_step |-> cur, loop_stack |-> stack]
    ELSE LET n   == Len(stack)
             it  == stack[n].current_iteration + 1
         IN  IF it # stack[n].iterations
             THEN [current_step |-> stack[n].start_index,
                   loop_stack |-> [stack EXCEPT ![n].current_iteration = it]]
             ELSE [current_step |-> cur, loop_stack |-> SubSeq(stack, 1, n - 1)]
EndLoop(stack, cur) ==
    IF stack = << >>
    THEN [current_step |-> cur, loop_stack |-> stack]
    ELSE LET n   == Len(stack)
             it  == stack[n].current_iteration + 1
         IN  IF it < stack[n].iterations
             THEN [current_step |-> stack[n].start_index,
                   loop_stack |-> [stack EXCEPT ![n].current_iteration = it]]
             ELSE [current_step |-> cur, loop_stack |-> SubSeq(stack, 1, n - 1)]

\* Volumes are kept in sixtieths of a mL, so that rate * seconds / 60 is exact.
\* _pump_volume: the step's volume and rate, waiting for completion.
PumpVolumeOp(volume, rate) ==
    [volume60 |-> 60 * volume, rate |-> rate, wait |-> TRUE, sleep |-> 0]

\* _pump_time: volume = abs(rate) * duration / 60, negated when rate < 0; the
\* operation gets abs(rate) and does not wait; then sleep(duration + 1).
PumpTimeOp(duration, rate) ==
    [volume60 |-> IF rate < 0 THEN -(Abs(rate) * duration) ELSE Abs(rate) * duration,
     rate |-> Abs(rate), wait |-> FALSE, sleep |-> duration + 1]

\* _execute_pump_operation, lines 214-217: 1 = infuse, 0 = withdraw.
PumpMode(volume60) == IF volume60 < 0 THEN 1 ELSE 0

\* execute_single_step(step) up to its first call on the connection.
\*   "raise":  an exception leaves execute_single_step (lines 160-161 are
\*             outside its try);
\*   "fail":   an exception is caught at line 197: error "Step n: ..." and
\*             return False;
\*   "pump":   _execute_pump_operation starts with the arguments op;
\*   "ok":     return True.
Outcome(kind, cause, cur, stack, o) ==
    [kind |-> kind, cause |-> cause, current_step |-> cur, loop_stack |-> stack,
     op |-> o]

\* _wait: time.sleep(duration), which raises ValueError on a negative length;
\* nothing else is read or written.
WaitSkipsAStep(duration, cur, stack) == Outcome("ok", "", cur + 1, stack, NoOp)
Wait(duration, cur, stack) ==
    IF duration < 0
    THEN Outcome("fail", "ValueError", cur, stack, NoOp)
    ELSE Outcome("ok", "", cur, stack, NoOp)

ExecuteStep(step, cur, stack) ==
    IF "function" \notin DOMAIN step THEN Outcome("raise", "KeyError", cur, stack, NoOp)
    ELSE IF "params" \notin DOMAIN step THEN Outcome("raise", "KeyError", cur, stack, NoOp)
    ELSE LET function == step["function"]
             params   == step["params"]
         IN
         IF function = "pump_volume" THEN
            LET volume == PyFloat(ParamsGet(params, "volume", IntV(0)))
                rate   == PyFloat(ParamsGet(params, "rate", IntV(1)))
            IN  IF volume.ok /\ rate.ok
                THEN Outcome("pump", "", cur, stack, PumpVolumeOp(volume.v, rate.v))
                ELSE Outcome("fail", "ValueError", cur, stack, NoOp)
         ELSE IF function = "pump_time" THEN
            LET duration == PyFloat(ParamsGet(params, "time", IntV(1)))
                rate     == PyFloat(ParamsGet(params, "rate", IntV(1)))
            IN  IF duration.ok /\ rate.ok
                THEN Outcome("pump", "", cur, stack, PumpTimeOp(duration.v, rate.v))
                ELSE Outcome("fail", "ValueError", cur, stack, NoOp)
         ELSE IF function = "wait" THEN
            LET duration == PyFloat(ParamsGet(params, "time", IntV(1)))
            IN  IF duration.ok
                THEN Wait(duration.v, cur, stack)
                ELSE Outcome("fail", "ValueError", cur, stack, NoOp)
         ELSE IF function = "start_loop" THEN
            LET iterations == PyInt(ParamsGet(params, "iterations", IntV(1)))
            IN  IF iterations.ok
                THEN Outcome("ok", "", cur, StartLoop(stack, cur, iterations.v), NoOp)
                ELSE Outcome("fail", "ValueError", cur, stack, NoOp)
         ELSE IF function = "end_loop" THEN
            LET e == EndLoop(stack, cur)
            IN  Outcome("ok", "", e.current_step, e.loop_stack, NoOp)
         ELSE Outcome("ok", "", cur, stack, NoOp)

\* A notification: step_changed carries the 0-based index; an error carries
\* the step number of its "Step n: " prefix, 0 when its message has none.
\* at, phase, afterStop: current_step, the worker's place and stop_event when
\* it was emitted.
Note(kind, step, cause) ==
    [kind |-> kind, step |-> step, cause |-> cause, at |-> current_step,
     phase |-> pc, afterStop |-> stop_event]

\* The handler of line 197: error "Step {current_step + 1}: ...", return False.
StepError(cause) == Note("error", current_step + 1, cause)

\* The handler of line 153: error str(e).
RunError(cause) == Note("error", 0, cause)

\* The state after play_program has built the executor and started its thread.
InitRun(programs, caches) ==
    /\ cache \in caches
    /\ multipump = FALSE
    /\ currentPump = 1
    /\ lastCall = NoCall
    /\ reached = << >> /\ completed = << >> /\ sinceReset = {}
    /\ preReset = << >> /\ resetSeen = FALSE /\ ncalls = 0 /\ called = {}
    /\ steps \in programs
    /\ step_read = NoStep
    /\ current_step = 0
    /\ loop_stack = << >>
    /\ stop_event = FALSE
    /\ pause_event = FALSE
    /\ pc = "start"
    /\ op = NoOp
    /\ notes = << >>
    /\ req = << >>
    /\ uiCalls = {}
    /\ stopInWindow = FALSE
    /\ stopWhilePaused = FALSE
    /\ NoFile
    /\ NoGui
    /\ NoVendor

UnitsArg == Scalar("mL/min")

\* The cache an earlier run, single step or jog has left behind.
UsedCache ==
    CachePut(CachePut(CachePut(<< >>,
        MakeCacheKey("setUnits", FALSE, 1), MakeParamValue(<<UnitsArg>>, {})),
        MakeCacheKey("setDiameter", FALSE, 1), MakeParamValue(<<Scalar(Diameter)>>, {})),
        MakeCacheKey("setMode", FALSE, 1), MakeParamValue(<<Scalar(0)>>, {}))

\* The worker calls name(arg) on the wrapper and goes on at pc `next`; if the
\* call raises, `error` is emitted and the run loop is left.
WorkerRequest(name, arg, next, error) ==
    \E hwOk \in BOOLEAN :
      LET r == WrapperCall(cache, multipump, currentPump, name, <<arg>>, {}, hwOk)
      IN  /\ cache' = r.cache
          /\ req' = Append(req, [m |-> name, arg |-> arg, at |-> current_step,
                                 phase |-> pc, invoked |-> r.invoked,
                                 raised |-> r.raised, afterStop |-> stop_event])
          /\ IF r.raised
             THEN notes' = Append(notes, error) /\ pc' = "finally"
             ELSE notes' = notes /\ pc' = next

\* The worker's reset_cache() in the list of its calls on the wrapper, with
\* whether it found units and diameter cached.
ResetRequest ==
    [m |-> "reset_cache", arg |-> Scalar(0), at |-> current_step, phase |-> pc,
     invoked |-> FALSE, raised |-> FALSE, afterStop |-> stop_event,
     cleared |-> {"setUnits", "setDiameter"} \subseteq { k[1] : k \in DOMAIN cache }]

\* _initialize_pump_state: reset_cache()
InitializePumpStateKeepsCache ==
    /\ pc = "start"
    /\ cache' = cache
    /\ req' = Append(req, ResetRequest)
    /\ pc' = "init_units"
    /\ UNCHANGED <<multipump, currentPump, histVars, fileVars, guiVars, vendorVars, steps, step_read, current_step, loop_stack,
                   stop_event, pause_event, op, notes, uiCalls, stopInWindow, stopWhilePaused>>
InitializePumpState ==
    /\ pc = "start"
    /\ cache' = ResetCacheValue(cache)
    /\ req' = Append(req, ResetRequest)
    /\ pc' = "init_units"
    /\ UNCHANGED <<multipump, currentPump, histVars, fileVars, guiVars, vendorVars, steps, step_read, current_step, loop_stack,
                   stop_event, pause_event, op, notes, uiCalls, stopInWindow, stopWhilePaused>>

\* _initialize_pump_state: setUnits('mL/min')
InitSetUnits ==
    /\ pc = "init_units"
    /\ WorkerRequest("setUnits", UnitsArg, "init_diameter", RunError("hardware"))
    /\ UNCHANGED <<multipump, currentPump, histVars, fileVars, guiVars, vendorVars, steps, step_read, current_step, loop_stack,
                   stop_event, pause_event, op, uiCalls, stopInWindow, stopWhilePaused>>

\* _initialize_pump_state: setDiameter(config['diameter']); current_step = 0
InitSetDiameter ==
    /\ pc = "init_diameter"
    /\ WorkerRequest("setDiameter", Scalar(Diameter), "while", RunError("hardware"))
    /\ current_step' = 0
    /\ UNCHANGED <<multipump, currentPump, histVars, fileVars, guiVars, vendorVars, steps, step_read, loop_stack,
                   stop_event, pause_event, op, uiCalls, stopInWindow, stopWhilePaused>>

\* while self.current_step < len(self.steps) and not self.stop_event.is_set()
LoopTestIgnoresStop ==
    /\ pc = "while"
    /\ pc' = IF current_step < Len(steps) THEN "body" ELSE "finally"
    /\ UNCHANGED <<cacheVars, histVars, fileVars, guiVars, vendorVars, steps, step_read, current_step, loop_stack, stop_event,
                   pause_event, op, notes, req, uiCalls, stopInWindow, stopWhilePaused>>
LoopTest ==
    /\ pc = "while"
    /\ pc' = IF current_step < Len(steps) /\ ~stop_event THEN "body" ELSE "finally"
    /\ UNCHANGED <<cacheVars, histVars, fileVars, guiVars, vendorVars, steps, step_read, current_step, loop_stack, stop_event,
                   pause_event, op, notes, req, uiCalls, stopInWindow, stopWhilePaused>>

\* if self.pause_event.is_set(): ... else: step_changed.emit(current_step)
PauseTest ==
    /\ pc = "body"
    /\ IF pause_event
       THEN pc' = "pause_wait" /\ notes' = notes /\ step_read' = step_read
       ELSE IF current_step < Len(steps)
       THEN /\ step_read' = steps[current_step + 1]
            /\ pc' = "exec"
            /\ notes' = Append(notes, Note("step_changed", current_step, ""))
       ELSE /\ step_read' = step_read
            /\ pc' = "finally"
            /\ notes' = Append(notes, RunError("IndexError"))
    /\ UNCHANGED <<cacheVars, histVars, fileVars, guiVars, vendorVars, steps, current_step, loop_stack, stop_event,
                   pause_event, op, req, uiCalls, stopInWindow, stopWhilePaused>>

\* self.pause_event.wait(); continue  (Event.wait returns once the flag is set)
PauseWaitUntilCleared ==
    /\ pc = "pause_wait"
    /\ ~pause_event
    /\ pc' = "while"
    /\ UNCHANGED <<cacheVars, histVars, fileVars, guiVars, vendorVars, steps, step_read, current_step, loop_stack, stop_event,
                   pause_event, op, notes, req, uiCalls, stopInWindow, stopWhilePaused>>
PauseWait ==
    /\ pc = "pause_wait"
    /\ pause_event
    /\ pc' = "while"
    /\ UNCHANGED <<cacheVars, histVars, fileVars, guiVars, vendorVars, steps, step_read, current_step, loop_stack, stop_event,
                   pause_event, op, notes, req, uiCalls, stopInWindow, stopWhilePaused>>

\* execute_single_step(step), up to its first call on the connection
ExecuteSingleStep ==
    /\ pc = "exec"
    /\ LET o == ExecuteStep(step_read, current_step, loop_stack)
       IN  /\ current_step' = o.current_step
           /\ loop_stack' = o.loop_stack
           /\ op' = o.op
           /\ pc' = CASE o.kind = "ok"   -> "advance"
                      [] o.kind = "pump" -> "op_units"
                      [] OTHER           -> "finally"
           /\ notes' = CASE o.kind = "raise" -> Append(notes, RunError(o.cause))
                         [] o.kind = "fail"  -> Append(notes, StepError(o.cause))
                         [] OTHER            -> notes
    /\ UNCHANGED <<cacheVars, histVars, fileVars, guiVars, vendorVars, steps, step_read, stop_event, pause_event, req, uiCalls,
                   stopInWindow, stopWhilePaused>>

\* _execute_pump_operation: setUnits('mL/min')
OpSetUnits ==
    /\ pc = "op_units"
    /\ WorkerRequest("setUnits", UnitsArg, "op_diameter", StepError("hardware"))
    /\ UNCHANGED <<multipump, currentPump, histVars, fileVars, guiVars, vendorVars, steps, step_read, current_step, loop_stack,
                   stop_event, pause_event, op, uiCalls, stopInWindow, stopWhilePaused>>

\* _execute_pump_operation: setDiameter(config['diameter'])
OpSetDiameter ==
    /\ pc = "op_diameter"
    /\ WorkerRequest("setDiameter", Scalar(Diameter), "op_mode", StepError("hardware"))
    /\ UNCHANGED <<multipump, currentPump, histVars, fileVars, guiVars, vendorVars, steps, step_read, current_step, loop_stack,
                   stop_event, pause_event, op, uiCalls, stopInWindow, stopWhilePaused>>

\* _execute_pump_operation: setMode(1) if volume < 0 else setMode(0)
OpSetMode ==
    /\ pc = "op_mode"
    /\ WorkerRequest("setMode", Scalar(PumpMode(op.volume60)), "op_volume",
                     StepError("hardware"))
    /\ UNCHANGED <<multipump, currentPump, histVars, fileVars, guiVars, vendorVars, steps, step_read, current_step, loop_stack,
                   stop_event, pause_event, op, uiCalls, stopInWindow, stopWhilePaused>>

\* _execute_pump_operation, line 219: self.connection.setVolume(actual_volume).
\* No assignment to actual_volume exists in the function or the module, so
\* evaluating the argument raises NameError; setRate, startPump and the sleep
\* of lines 220-226 are never reached.
OpSetVolume ==
    /\ pc = "op_volume"
    /\ notes' = Append(notes, StepError("NameError"))
    /\ pc' = "finally"
    /\ UNCHANGED <<cacheVars, histVars, fileVars, guiVars, vendorVars, steps, step_read, current_step, loop_stack, stop_event,
                   pause_event, op, req, uiCalls, stopInWindow, stopWhilePaused>>

\* self.current_step += 1
Advance ==
    /\ pc = "advance"
    /\ current_step' = current_step + 1
    /\ pc' = "while"
    /\ UNCHANGED <<cacheVars, histVars, fileVars, guiVars, vendorVars, steps, step_read, loop_stack, stop_event, pause_event,
                   op, notes, req, uiCalls, stopInWindow, stopWhilePaused>>

\* finally: self.execution_finished.emit()
FinallyOnlyWithoutError ==
    /\ pc = "finally"
    /\ notes' = IF \E i \in DOMAIN notes : notes[i].kind = "error"
                THEN notes ELSE Append(notes, Note("finished", 0, ""))
    /\ pc' = "done"
    /\ UNCHANGED <<cacheVars, histVars, fileVars, guiVars, vendorVars, steps, step_read, current_step, loop_stack, stop_event,
                   pause_event, op, req, uiCalls, stopInWindow, stopWhilePaused>>
Finally ==
    /\ pc = "finally"
    /\ notes' = Append(notes, Note("finished", 0, ""))
    /\ pc' = "done"
    /\ UNCHANGED <<cacheVars, histVars, fileVars, guiVars, vendorVars, steps, step_read, current_step, loop_stack, stop_event,
                   pause_event, op, req, uiCalls, stopInWindow, stopWhilePaused>>

\* StepExecutor.stop(), on the UI thread
StopEvents ==
    /\ stop_event' = TRUE
    /\ uiCalls' = uiCalls \cup {"stopPump"}
    /\ stopInWindow' = IF stop_event THEN stopInWindow ELSE pc = "body"
    /\ stopWhilePaused' = IF stop_event THEN stopWhilePaused
                        ELSE pause_event /\ pc \notin {"finally", "done"}

Stop ==
    /\ pc # "none"
    /\ StopEvents
    /\ UNCHANGED <<cacheVars, histVars, fileVars, guiVars, vendorVars, steps, step_read, current_step, loop_stack, pause_event,
                   pc, op, notes, req>>

\* StepExecutor.pause(), on the UI thread
PauseEvents ==
    /\ pause_event' = TRUE
    /\ uiCalls' = uiCalls \cup {"pausePump"}

Pause ==
    /\ pc # "none"
    /\ PauseEvents
    /\ UNCHANGED <<cacheVars, histVars, fileVars, guiVars, vendorVars, steps, step_read, current_step, loop_stack, stop_event,
                   pc, op, notes, req, stopInWindow, stopWhilePaused>>

\* StepExecutor.resume(), on the UI thread
ResumeRestartsPump ==
    /\ pause_event' = FALSE
    /\ uiCalls' = uiCalls \cup {"startPump"}
ResumeEvents ==
    /\ pause_event' = FALSE
    /\ uiCalls' = uiCalls

Resume ==
    /\ pc # "none"
    /\ ResumeEvents
    /\ UNCHANGED <<cacheVars, histVars, fileVars, guiVars, vendorVars, steps, step_read, current_step, loop_stack, stop_event,
                   pc, op, notes, req, stopInWindow, stopWhilePaused>>

Worker ==
    \/ InitializePumpState \/ InitSetUnits \/ InitSetDiameter
    \/ LoopTest \/ PauseTest \/ PauseWait \/ ExecuteSingleStep
    \/ OpSetUnits \/ OpSetDiameter \/ OpSetMode \/ OpSetVolume
    \/ Advance \/ Finally

NextRun == Worker \/ Stop \/ Pause \/ Resume

\* ---- programs of the interpreter's step kinds, well formed or not
MaxSteps == 3
StepAlphabet ==
    { WaitStep(FloatV(1)), WaitStep(StrV(0)), WaitStep(FloatV(-1)),
      PumpVolumeStep(FloatV(5), FloatV(10)),
      StartLoopStep(IntV(2)), EndLoopStep, NoFunctionStep, NoParamsStep }

Init == InitRun(Programs(StepAlphabet, MaxSteps), {<< >>, UsedCache})
Next == NextRun
Spec == Init /\ [][Next]_vars

\* ---- short programs run by a worker thread that the scheduler never
\* starves: a step of execute_steps that can be taken is taken eventually.
\* The UI thread is under no such obligation (the operator may do nothing).
MaxPauseSteps == 2
PauseAlphabet == { WaitStep(FloatV(1)), PumpVolumeStep(FloatV(5), FloatV(10)) }
InitPause == InitRun(Programs(PauseAlphabet, MaxPauseSteps), {<< >>})
SpecPauseFair == InitPause /\ [][Next]_vars /\ WF_vars(Worker)

\* ---- programs of loops, for the loop construct
MaxLoopSteps == 4
LoopCounts   == {1, 2, 3}
LoopAlphabet ==
    { WaitStep(FloatV(1)), PumpVolumeStep(FloatV(5), FloatV(10)), EndLoopStep }
    \cup { StartLoopStep(IntV(n)) : n \in LoopCounts }

InitLoop == InitRun(Programs(LoopAlphabet, MaxLoopSteps), {<< >>})
SpecLoop == InitLoop /\ [][Next]_vars

\* ---- short programs of loop steps, matched or not, run by a worker thread
\* that the scheduler never starves (the UI thread may pause, resume and stop
\* at any time, or do nothing)
MaxFairSteps == 3
FairCounts   == {0, 2}
FairAlphabet ==
    { WaitStep(FloatV(1)), PumpVolumeStep(FloatV(5), FloatV(10)), EndLoopStep }
    \cup { StartLoopStep(IntV(n)) : n \in FairCounts }
InitLoopFair == InitRun(Programs(FairAlphabet, MaxFairSteps), {<< >>})
SpecLoopFair == InitLoopFair /\ [][Next]_vars /\ WF_vars(Worker)

\* ---- programs of one loop, or of a loop inside a loop, with iteration
\* counts a loaded file may hold (the dialog's spin box starts at 1); a
\* body is a wait or a pump_volume, the steps between and after are waits
NestCounts == {-1, 0, 1, 2, 3}
Gaps       == { << >>, <<WaitStep(FloatV(1))>> }
Bodies     == { <<WaitStep(FloatV(1))>>, <<PumpVolumeStep(FloatV(5), FloatV(10))>> }
OneLoopPrograms ==
    { <<StartLoopStep(IntV(n))>> \o b \o <<EndLoopStep>> \o d :
        n \in NestCounts, b \in Bodies, d \in Gaps }
NestedPrograms ==
    { <<StartLoopStep(IntV(n))>> \o a \o <<StartLoopStep(IntV(m))>> \o b
        \o <<EndLoopStep>> \o c \o <<EndLoopStep>> \o d :
        n \in NestCounts, m \in NestCounts, a \in Gaps, b \in Bodies,
        c \in Gaps, d \in Gaps }

InitNest == InitRun(OneLoopPrograms \cup NestedPrograms, {<< >>})
SpecNest == InitNest /\ [][Next]_vars

\* ---- programs of one pump step, over a range of volumes, rates and times
MaxVolume == 2
MaxRate   == 2
MaxTime   == 2
PumpSteps ==
    { PumpVolumeStep(FloatV(v), FloatV(r)) :
        v \in (-MaxVolume)..MaxVolume, r \in (-MaxRate)..MaxRate }
    \cup { PumpTimeStep(FloatV(t), FloatV(r)) :
        t \in 0..MaxTime, r \in (-MaxRate)..MaxRate }
\* A pump step alone, or after a wait.
PumpPrograms ==
    { <<p>> : p \in PumpSteps } \cup { <<WaitStep(FloatV(1)), p>> : p \in PumpSteps }

InitPump == InitRun(PumpPrograms, {<< >>, UsedCache})
SpecPump == InitPump /\ [][Next]_vars

\* ------------------------------------------------------------ MyChemyxGUI
\* The main window's handlers run one at a time on the UI thread; the worker
\* thread that play_program starts runs execute_steps beside them. The
\* worker's notifications are queued to the UI thread and handled in order.
JogVolume == 50
JogRate   == 5

\* The program in the table: a wait, or a pump_volume.
GuiPrograms ==
    { <<WaitStep(FloatV(1))>>, <<PumpVolumeStep(FloatV(5), FloatV(10))>> }

\* A worker thread is inside execute_steps.
WorkerActive == pc \notin {"none", "done"}

\* Where the worker is in its run: not running, before or just after its
\* reset_cache, after its first setUnits, later.
WorkerPhase ==
    CASE ~WorkerActive        -> "idle"
      [] pc = "start"         -> "before_reset"
      [] pc = "init_units"    -> "after_reset"
      [] pc = "init_diameter" -> "after_units"
      [] OTHER                -> "running"

InitGui ==
    /\ cache = << >> /\ multipump = FALSE /\ currentPump = 1
    /\ lastCall = NoCall
    /\ reached = << >> /\ completed = << >> /\ sinceReset = {}
    /\ preReset = << >> /\ resetSeen = FALSE /\ ncalls = 0 /\ called = {}
    /\ steps \in GuiPrograms
    /\ step_read = NoStep
    /\ current_step = 0 /\ loop_stack = << >>
    /\ stop_event = FALSE /\ pause_event = FALSE
    /\ pc = "none" /\ op = NoOp /\ notes = << >> /\ req = << >> /\ uiCalls = {}
    /\ stopInWindow = FALSE
    /\ stopWhilePaused = FALSE
    /\ NoFile
    /\ NoGui
    /\ NoVendor

\* toggle_connection, not connected: open the port (which may fail) and wrap
\* the connection in a new CachedConnection. (While a worker still runs on
\* the previous wrapper no new one is made: one cache is modelled.)
Connect ==
    /\ uipc = "idle" /\ ~connected /\ ~WorkerActive
    /\ \E opened \in BOOLEAN :
         /\ connected' = opened
         /\ cache' = IF opened THEN << >> ELSE cache
    /\ UNCHANGED <<multipump, currentPump, histVars, runVars, fileVars, vendorVars,
                   is_running, is_paused, handled, uipc, uiop, uiSent, uiInInit,
                   stale>>

\* toggle_connection, connected: closeConnection() on the wrapped connection,
\* then reset_cache(); if closeConnection raises, the handler logs a warning
\* and nothing else is done.
DisconnectKeepsCache ==
    /\ uipc = "idle" /\ connected
    /\ \E closed \in BOOLEAN :
         /\ connected' = ~closed
         /\ cache' = cache
    /\ UNCHANGED <<multipump, currentPump, histVars, runVars, fileVars, vendorVars,
                   is_running, is_paused, handled, uipc, uiop, uiSent, uiInInit,
                   stale>>
Disconnect ==
    /\ uipc = "idle" /\ connected
    /\ \E closed \in BOOLEAN :
         /\ connected' = ~closed
         /\ cache' = IF closed THEN ResetCacheValue(cache) ELSE cache
    /\ UNCHANGED <<multipump, currentPump, histVars, runVars, fileVars, vendorVars,
                   is_running, is_paused, handled, uipc, uiop, uiSent, uiInInit,
                   stale>>

\* play_program: a new executor and a new worker thread, unless a run is on.
\* notes, req, uiCalls and the UI's records start afresh: they are those of the new run.
PlayProgramWhenever ==
    /\ uipc = "idle" /\ connected /\ steps # << >>
    /\ is_running' = TRUE /\ is_paused' = FALSE
    /\ current_step' = 0 /\ loop_stack' = << >>
    /\ stop_event' = FALSE /\ pause_event' = FALSE
    /\ pc' = "start" /\ op' = NoOp
    /\ stopInWindow' = FALSE /\ stopWhilePaused' = FALSE
    /\ stale' = (stale \/ WorkerActive)
    /\ notes' = << >> /\ handled' = 0 /\ req' = << >> /\ uiCalls' = {}
    /\ uiSent' = "" /\ uiInInit' = {}
    /\ step_read' = NoStep
    /\ UNCHANGED <<cacheVars, histVars, fileVars, vendorVars, steps, connected,
                   uipc, uiop>>
PlayProgram ==
    /\ uipc = "idle" /\ connected /\ steps # << >>
    /\ ~is_running
    /\ is_running' = TRUE /\ is_paused' = FALSE
    /\ current_step' = 0 /\ loop_stack' = << >>
    /\ stop_event' = FALSE /\ pause_event' = FALSE
    /\ pc' = "start" /\ op' = NoOp
    /\ stopInWindow' = FALSE /\ stopWhilePaused' = FALSE
    /\ stale' = (stale \/ WorkerActive)
    /\ notes' = << >> /\ handled' = 0 /\ req' = << >> /\ uiCalls' = {}
    /\ uiSent' = "" /\ uiInInit' = {}
    /\ UNCHANGED <<cacheVars, histVars, fileVars, vendorVars, steps, step_read, connected,
                   uipc, uiop>>

\* pause_program: executor.pause() and is_paused = True or, on a paused run,
\* executor.resume() and is_paused = False. If pausePump raises, pause() has
\* set the flag already and is_paused is not assigned; the handler ends with
\* the exception (the window is modelled as going on, as it does when an
\* exception hook reports it).
PauseProgram ==
    /\ uipc = "idle" /\ is_running
    /\ IF ~is_paused
       THEN PauseEvents /\ \E returned \in BOOLEAN : is_paused' = returned
       ELSE ResumeEvents /\ is_paused' = FALSE
    /\ UNCHANGED <<cacheVars, histVars, fileVars, vendorVars, steps, step_read, current_step,
                   loop_stack, stop_event, pc, op, notes, req, stopInWindow,
                   stopWhilePaused, connected, is_running, handled, uipc, uiop,
                   uiSent, uiInInit, stale>>

\* stop_program: executor.stop()
StopProgram ==
    /\ uipc = "idle" /\ is_running
    /\ StopEvents
    /\ UNCHANGED <<cacheVars, histVars, fileVars, vendorVars, guiVars, steps, step_read,
                   current_step, loop_stack, pause_event, pc, op, notes, req>>

\* The UI thread handles the next queued notification: highlight_current_step,
\* execution_error (a modal message box, then stop_program) or
\* execution_finished. Queued notifications are also handled while the
\* message box is open.
HandleNotification ==
    /\ handled < Len(notes)
    /\ LET n == notes[handled + 1]
       IN  /\ uipc \in (IF n.kind = "error" THEN {"idle"} ELSE {"idle", "error_box"})
           /\ uipc' = IF n.kind = "error" THEN "error_box" ELSE uipc
           /\ is_running' = IF n.kind = "finished" THEN FALSE ELSE is_running
           /\ is_paused' = IF n.kind = "finished" THEN FALSE ELSE is_paused
    /\ handled' = handled + 1
    /\ UNCHANGED <<cacheVars, histVars, runVars, fileVars, vendorVars, connected,
                   uiop, uiSent, uiInInit, stale>>

\* execution_error after the message box is closed: stop_program()
CloseErrorBox ==
    /\ uipc = "error_box"
    /\ uipc' = "idle"
    /\ IF is_running
       THEN StopEvents
       ELSE UNCHANGED <<stop_event, uiCalls, stopInWindow, stopWhilePaused>>
    /\ UNCHANGED <<cacheVars, histVars, fileVars, vendorVars, steps, step_read, current_step,
                   loop_stack, pause_event, pc, op, notes, req, connected,
                   is_running, is_paused, handled, uiop, uiSent, uiInInit, stale>>

\* single_step: execute_single_step(step) of the selected row on the UI
\* thread, in an executor of its own; only a pump step touches the connection.
SingleStep ==
    /\ uipc = "idle"
    /\ \E row \in DOMAIN steps :
         LET o == ExecuteStep(steps[row], 0, << >>)
         IN  IF connected /\ o.kind = "pump"
             THEN uipc' = "ui_units" /\ uiop' = UiOp("step", o.op)
             ELSE UNCHANGED <<uipc, uiop>>
    /\ uiSent' = ""
    /\ UNCHANGED <<cacheVars, histVars, runVars, fileVars, vendorVars, connected,
                   is_running, is_paused, handled, uiInInit, stale>>

\* start_jog(fill_direction): _execute_pump_operation(-50 or 50, rate,
\* wait_for_completion=False) in an executor of its own, if connected.
JogOp(fill_direction) ==
    [volume60 |-> 60 * (IF fill_direction THEN -JogVolume ELSE JogVolume),
     rate |-> JogRate, wait |-> FALSE, sleep |-> 0]

StartJog ==
    /\ uipc = "idle"
    /\ uiSent' = ""
    /\ \E fill_direction \in BOOLEAN :
         IF connected
         THEN uipc' = "ui_units" /\ uiop' = UiOp("jog", JogOp(fill_direction))
         ELSE UNCHANGED <<uipc, uiop>>
    /\ UNCHANGED <<cacheVars, histVars, runVars, fileVars, vendorVars, connected,
                   is_running, is_paused, handled, uiInInit, stale>>

\* The UI thread calls name(args) on the wrapper and goes on at `next`; an
\* exception ends the handler (it is caught and logged).
UiRequest(sent, name, args, next) ==
    /\ \E hwOk \in BOOLEAN :
         LET r == WrapperCall(cache, multipump, currentPump, name, args, {}, hwOk)
         IN  /\ cache' = r.cache
             /\ uiSent' = IF r.invoked THEN name ELSE sent
             /\ uiInInit' = IF /\ r.invoked /\ ~r.raised
                               /\ name \in {"setUnits", "setDiameter"}
                               /\ WorkerPhase \in {"after_reset", "after_units"}
                            THEN uiInInit \cup {name} ELSE uiInInit
             /\ uipc' = IF r.raised THEN "idle" ELSE next
             /\ uiop' = IF r.raised \/ next = "idle" THEN NoUiOp ELSE uiop
    /\ UNCHANGED <<multipump, currentPump, histVars, runVars, fileVars, vendorVars,
                   connected, is_running, is_paused, handled, stale>>

\* _execute_pump_operation on the UI thread: setUnits('mL/min')
UiSetUnits ==
    /\ uipc = "ui_units"
    /\ UiRequest(uiSent, "setUnits", <<UnitsArg>>, "ui_diameter")

\* _execute_pump_operation on the UI thread: setDiameter(config['diameter'])
UiSetDiameter ==
    /\ uipc = "ui_diameter"
    /\ UiRequest(uiSent, "setDiameter", <<Scalar(Diameter)>>, "ui_mode")

\* _execute_pump_operation on the UI thread: setMode
UiSetMode ==
    /\ uipc = "ui_mode"
    /\ UiRequest(uiSent, "setMode", <<Scalar(PumpMode(uiop.volume60))>>, "ui_volume")

\* _execute_pump_operation on the UI thread, line 219: NameError on
\* actual_volume; start_jog logs it, execute_single_step reports it to no one.
UiSetVolume ==
    /\ uipc = "ui_volume"
    /\ uipc' = "idle" /\ uiop' = NoUiOp
    /\ UNCHANGED <<cacheVars, histVars, runVars, fileVars, vendorVars, connected,
                   is_running, is_paused, handled, uiSent, uiInInit, stale>>

\* stop_jog: connection.stopPump(), if connected
StopJog ==
    /\ uipc = "idle"
    /\ IF connected
       THEN UiRequest("", "stopPump", << >>, "idle")
       ELSE /\ uiSent' = "" /\ uiInInit' = uiInInit
            /\ UNCHANGED <<cacheVars, histVars, runVars, fileVars, vendorVars,
                           connected, is_running, is_paused, handled, uipc,
                           uiop, stale>>

\* The run controls and the connection button, and the notifications.
RunControls ==
    \/ Connect \/ Disconnect \/ PlayProgram \/ PauseProgram \/ StopProgram
    \/ HandleNotification \/ CloseErrorBox

\* ---- an operator who connects, plays, pauses, resumes and stops
NextGui == Worker \/ RunControls
SpecGui == InitGui /\ [][NextGui]_vars

\* ---- an operator who connects, plays, pauses and resumes, and who jogs and
\* single-steps at any time the window lets them (a run ends by itself)
ManualControls ==
    \/ SingleStep \/ StartJog \/ StopJog
    \/ UiSetUnits \/ UiSetDiameter \/ UiSetMode \/ UiSetVolume

NextJog ==
    \/ Worker
    \/ Connect \/ Disconnect \/ PlayProgram \/ PauseProgram
    \/ HandleNotification \/ CloseErrorBox
    \/ ManualControls
InitJog == InitGui
SpecJog == InitJog /\ [][NextJog]_vars

\* --------------------------------------------------------- the program file
\* The text json.dump writes, as its tokens: brackets, braces, string
\* literals (a key or a name in s; an opaque string value numbered v) and
\* number literals ("float" has a decimal point, "int" has none).
Tok(tok, str, n) == [tok |-> tok, s |-> str, v |-> n]

\* A number: a Python float is written with its fraction (1.0), an int without.
JsonNumberWithoutFraction(x) == Tok("int", "", x.v)
JsonNumber(x) ==
    IF x.t = "float" THEN Tok("float", "", x.v) ELSE Tok("int", "", x.v)

JsonScalar(x) == IF x.t = "str" THEN Tok("str", "", x.v) ELSE JsonNumber(x)

\* The parameter names, in the order the dialog inserts them.
ParamOrder == <<"volume", "time", "rate", "iterations">>

RECURSIVE DumpParams(_, _)
DumpParams(params, i) ==
    IF i > Len(ParamOrder) THEN << >>
    ELSE (IF ParamOrder[i] \in DOMAIN params
          THEN <<Tok("str", ParamOrder[i], 0), JsonScalar(params[ParamOrder[i]])>>
          ELSE << >>) \o DumpParams(params, i + 1)

DumpStep(step) ==
    <<Tok("{", "", 0)>>
    \o (IF "function" \in DOMAIN step
        THEN <<Tok("str", "function", 0), Tok("str", step["function"], 0)>>
        ELSE << >>)
    \o (IF "params" \in DOMAIN step
        THEN <<Tok("str", "params", 0), Tok("{", "", 0)>>
             \o DumpParams(step["params"], 1) \o <<Tok("}", "", 0)>>
        ELSE << >>)
    \o <<Tok("}", "", 0)>>

RECURSIVE DumpSteps(_, _)
DumpSteps(list, i) ==
    IF i > Len(list) THEN << >> ELSE DumpStep(list[i]) \o DumpSteps(list, i + 1)

\* json.dump(self.steps, f, indent=2)
JsonDump(list) == <<Tok("[", "", 0)>> \o DumpSteps(list, 1) \o <<Tok("]", "", 0)>>

\* json.load(f): the value that starts at token i, and the token after it.
RECURSIVE ParseValue(_, _), ParseItems(_, _, _), ParseMembers(_, _, _)
ParseValue(toks, i) ==
    LET t == toks[i]
    IN  IF t.tok = "[" THEN ParseItems(toks, i + 1, << >>)
        ELSE IF t.tok = "{" THEN ParseMembers(toks, i + 1, << >>)
        ELSE IF t.tok = "int" THEN [val |-> IntV(t.v), next |-> i + 1]
        ELSE IF t.tok = "float" THEN [val |-> FloatV(t.v), next |-> i + 1]
        ELSE [val |-> IF t.s = "" THEN StrV(t.v) ELSE t.s, next |-> i + 1]
ParseItems(toks, i, acc) ==
    IF toks[i].tok = "]" THEN [val |-> acc, next |-> i + 1]
    ELSE LET r == ParseValue(toks, i)
         IN  ParseItems(toks, r.next, Append(acc, r.val))
ParseMembers(toks, i, acc) ==
    IF toks[i].tok = "}" THEN [val |-> acc, next |-> i + 1]
    ELSE LET r == ParseValue(toks, i + 1)
         IN  ParseMembers(toks, r.next, CachePut(acc, toks[i].s, r.val))

JsonLoad(toks) == ParseValue(toks, 1).val

\* The steps StepParameterDialog builds: float and int parameters, or none.
MaxProgram == 2
DialogSteps ==
    { PumpVolumeStep(FloatV(-2), FloatV(1)), StartLoopStep(IntV(2)), EndLoopStep }

InitFile ==
    /\ cache = << >> /\ multipump = FALSE /\ currentPump = 1
    /\ lastCall = NoCall
    /\ reached = << >> /\ completed = << >> /\ sinceReset = {}
    /\ preReset = << >> /\ resetSeen = FALSE /\ ncalls = 0 /\ called = {}
    /\ steps = << >> /\ step_read = NoStep /\ current_step = 0 /\ loop_stack = << >>
    /\ stop_event = FALSE /\ pause_event = FALSE
    /\ pc = "none" /\ op = NoOp /\ notes = << >> /\ req = << >> /\ uiCalls = {}
    /\ stopInWindow = FALSE
    /\ stopWhilePaused = FALSE
    /\ file = << >>
    /\ fileIsStepsFile \in BOOLEAN
    /\ saved = [steps |-> << >>, valid |-> FALSE]
    /\ lastOp = "none"
    /\ NoGui
    /\ NoVendor

\* auto_save_steps: json.dump(self.steps) to self.steps_file, which is the
\* program file when the user chose that path in save_program.
AutoSaveSteps(list) ==
    /\ file' = IF fileIsStepsFile THEN JsonDump(list) ELSE file
    /\ saved' = IF fileIsStepsFile THEN [saved EXCEPT !.valid = FALSE] ELSE saved

\* add_step: append the dialog's step, auto-save
AddStep ==
    /\ Len(steps) < MaxProgram
    /\ \E st \in DialogSteps :
         /\ steps' = Append(steps, st)
         /\ AutoSaveSteps(Append(steps, st))
    /\ lastOp' = "add"
    /\ UNCHANGED <<cacheVars, histVars, step_read, current_step, loop_stack, stop_event,
                   pause_event, pc, op, notes, req, uiCalls, stopInWindow, stopWhilePaused,
                   fileIsStepsFile, guiVars, vendorVars>>

RemoveAt(list, row) == SubSeq(list, 1, row - 1) \o SubSeq(list, row + 1, Len(list))

\* remove_step: pop the selected row, auto-save
RemoveStep ==
    /\ \E row \in DOMAIN steps :
         /\ steps' = RemoveAt(steps, row)
         /\ AutoSaveSteps(RemoveAt(steps, row))
    /\ lastOp' = "remove"
    /\ UNCHANGED <<cacheVars, histVars, step_read, current_step, loop_stack, stop_event,
                   pause_event, pc, op, notes, req, uiCalls, stopInWindow, stopWhilePaused,
                   fileIsStepsFile, guiVars, vendorVars>>

\* move_step_up, move_step_down: swap the row with its neighbour in place,
\* auto-save
Swap(list, i, j) == [list EXCEPT ![i] = list[j], ![j] = list[i]]

MoveStep(row, other, name) ==
    /\ steps' = Swap(steps, row, other)
    /\ AutoSaveSteps(Swap(steps, row, other))
    /\ lastOp' = name
    /\ UNCHANGED <<cacheVars, histVars, step_read, current_step, loop_stack, stop_event,
                   pause_event, pc, op, notes, req, uiCalls, stopInWindow, stopWhilePaused,
                   fileIsStepsFile, guiVars, vendorVars>>

MoveStepUp ==
    \E row \in DOMAIN steps : row > 1 /\ MoveStep(row, row - 1, "move_up")

MoveStepDown ==
    \E row \in DOMAIN steps : row < Len(steps) /\ MoveStep(row, row + 1, "move_down")

\* save_program: json.dump(self.steps) to the chosen file
SaveProgram ==
    /\ file' = JsonDump(steps)
    /\ saved' = [steps |-> steps, valid |-> TRUE]
    /\ lastOp' = "save"
    /\ UNCHANGED <<cacheVars, histVars, runVars, fileIsStepsFile, guiVars, vendorVars>>

\* load_program: self.steps = json.load of the chosen file, then
\* auto_save_steps dumps the loaded list (saved still describes what
\* save_program wrote: the file that was read here).
LoadProgram ==
    /\ pc = "none"
    /\ file # << >>
    /\ steps' = JsonLoad(file)
    /\ file' = IF fileIsStepsFile THEN JsonDump(JsonLoad(file)) ELSE file
    /\ lastOp' = "load"
    /\ UNCHANGED <<cacheVars, histVars, step_read, current_step, loop_stack, stop_event,
                   pause_event, pc, op, notes, req, uiCalls, stopInWindow, stopWhilePaused,
                   fileIsStepsFile, saved, guiVars, vendorVars>>

NextFile == AddStep \/ RemoveStep \/ SaveProgram \/ LoadProgram
SpecFile == InitFile /\ [][NextFile]_vars

\* ---- an operator who edits the step table at any time, also during a run:
\* play_program hands self.steps itself to the StepExecutor (line 1054), so
\* the table's list and the worker's list are one object. load_program is
\* left out: it rebinds self.steps and leaves the worker's object alone.
EditControls == AddStep \/ RemoveStep \/ MoveStepUp \/ MoveStepDown

NextEdit ==
    \/ Worker \/ Connect \/ PlayProgram \/ PauseProgram
    \/ HandleNotification \/ CloseErrorBox
    \/ EditControls
InitEdit == InitGui
SpecEdit == InitEdit /\ [][NextEdit]_vars

\* ------------------------------------------------- ChemyxPumpGUI (gui_dev.py)
\* The vendor GUI's buttons. vCalls lists the run commands (startPump,
\* pausePump, stopPump) that CONNECTION carried out; a handler in which a
\* call raises, or sendFromGUI fails an assertion, ends there.
MaxVendorCalls == 5

InitVendor ==
    /\ cache = << >> /\ multipump = FALSE /\ currentPump = 1
    /\ lastCall = NoCall
    /\ reached = << >> /\ completed = << >> /\ sinceReset = {}
    /\ preReset = << >> /\ resetSeen = FALSE /\ ncalls = 0 /\ called = {}
    /\ steps = << >> /\ step_read = NoStep /\ current_step = 0 /\ loop_stack = << >>
    /\ stop_event = FALSE /\ pause_event = FALSE
    /\ pc = "none" /\ op = NoOp /\ notes = << >> /\ req = << >> /\ uiCalls = {}
    /\ stopInWindow = FALSE
    /\ stopWhilePaused = FALSE
    /\ NoFile
    /\ NoGui
    /\ NoVendor

\* setPauseBtn(val): ['Unpause', 'Pause'][val]
SetPauseBtn(val) == IF val THEN "Pause" ELSE "Unpause"

\* connect(), not connected and a port chosen: openConnection()
VendorConnect ==
    /\ ~vConnected
    /\ \E opened \in BOOLEAN : vConnected' = opened
    /\ UNCHANGED <<cacheVars, histVars, runVars, fileVars, guiVars, isRunning,
                   pauseBtn, vCalls>>

\* connect(), otherwise: closeConnection(), connected = False
VendorDisconnect ==
    /\ vConnected
    /\ vConnected' = FALSE
    /\ UNCHANGED <<cacheVars, histVars, runVars, fileVars, guiVars, isRunning,
                   pauseBtn, vCalls>>

\* start(): sendFromGUI(), startPump(), isRunning = True, setPauseBtn(True)
VendorStart ==
    /\ vConnected /\ Len(vCalls) < MaxVendorCalls
    /\ \E returned \in BOOLEAN :
         IF returned
         THEN /\ vCalls' = Append(vCalls, "startPump")
              /\ isRunning' = TRUE
              /\ pauseBtn' = SetPauseBtn(TRUE)
         ELSE UNCHANGED <<vCalls, isRunning, pauseBtn>>
    /\ UNCHANGED <<cacheVars, histVars, runVars, fileVars, guiVars, vConnected>>

\* stop(): stopPump(), isRunning = False, setPauseBtn(True)
VendorStop ==
    /\ vConnected /\ Len(vCalls) < MaxVendorCalls
    /\ \E returned \in BOOLEAN :
         IF returned
         THEN /\ vCalls' = Append(vCalls, "stopPump")
              /\ isRunning' = FALSE
              /\ pauseBtn' = SetPauseBtn(TRUE)
         ELSE UNCHANGED <<vCalls, isRunning, pauseBtn>>
    /\ UNCHANGED <<cacheVars, histVars, runVars, fileVars, guiVars, vConnected>>

\* pause(): pausePump() and setPauseBtn(False) if isRunning, else startPump()
\* and setPauseBtn(True); isRunning is not assigned
VendorPause ==
    /\ vConnected /\ Len(vCalls) < MaxVendorCalls
    /\ \E returned \in BOOLEAN :
         IF returned
         THEN /\ vCalls' = Append(vCalls, IF isRunning THEN "pausePump" ELSE "startPump")
              /\ pauseBtn' = SetPauseBtn(~isRunning)
         ELSE UNCHANGED <<vCalls, pauseBtn>>
    /\ UNCHANGED <<cacheVars, histVars, runVars, fileVars, guiVars, vConnected,
                   isRunning>>

NextVendor ==
    VendorConnect \/ VendorDisconnect \/ VendorStart \/ VendorStop \/ VendorPause
SpecVendor == InitVendor /\ [][NextVendor]_vars

\* ------------------------------------------------------------ observations
NotesOf(kind) == { i \in DOMAIN notes : notes[i].kind = kind }
Count(kind) == Cardinality(NotesOf(kind))

\* How often step index i (0-based) was dispatched: its step_changed notes.
Dispatches(i) == { k \in NotesOf("step_changed") : notes[k].step = i }
Dispatched(i) == Cardinality(Dispatches(i))

FunctionOf(step) == IF "function" \in DOMAIN step THEN step["function"] ELSE ""
IsLoopStep(step) == FunctionOf(step) \in {"start_loop", "end_loop"}

\* The program is one matched start_loop{N >= 1} ... end_loop pair at the
\* 1-based positions s < e, every other step being a non-loop step.
SingleLoopAt(p, s, e) ==
    /\ s \in DOMAIN p /\ e \in DOMAIN p /\ s < e
    /\ FunctionOf(p[s]) = "start_loop"
    /\ p[s]["params"]["iterations"].v >= 1
    /\ FunctionOf(p[e]) = "end_loop"
    /\ \A i \in DOMAIN p \ {s, e} : ~IsLoopStep(p[i])

\* The run went through all its steps: it ended neither stopped nor failed.
RanToEnd == pc = "done" /\ ~stop_event /\ Count("error") = 0

\* ------------------------------------------------------------- the interpreter
\* C3: a run that is neither stopped nor failed over a program with one
\* matched start_loop{N} ... end_loop pair (N >= 1, a body of non-loop
\* steps) dispatches every body step exactly N times, the start_loop once,
\* the end_loop N times, and then goes on with the step after end_loop:
\* every step outside the loop is dispatched once, those after end_loop only
\* after the last dispatch of end_loop.
C3_LoopRunsBodyNTimes ==
    RanToEnd =>
      \A s, e \in DOMAIN steps :
        SingleLoopAt(steps, s, e) =>
          LET N == steps[s]["params"]["iterations"].v
          IN  /\ Dispatched(s - 1) = 1
              /\ Dispatched(e - 1) = N
              /\ \A b \in (s + 1)..(e - 1) : Dispatched(b - 1) = N
              /\ \A o \in DOMAIN steps :
                   (o < s \/ o > e) => Dispatched(o - 1) = 1
              /\ \A o \in (e + 1)..Len(steps) :
                   \A k \in Dispatches(o - 1), j \in Dispatches(e - 1) : j < k
              /\ current_step = Len(steps)

\* A loop of three iterations with a step in its body and a step after it ran.
C3_Witness ==
    /\ RanToEnd
    /\ \E s, e \in DOMAIN steps :
         /\ SingleLoopAt(steps, s, e)
         /\ steps[s]["params"]["iterations"].v = 3
         /\ s + 1 < e /\ e < Len(steps)

\* The program is a matched start_loop ... end_loop pair at the 1-based
\* positions si < ei inside a matched pair at so < eo, every other step being
\* a non-loop step.
NestedAt(p, so, si, ei, eo) ==
    /\ {so, si, ei, eo} \subseteq DOMAIN p
    /\ so < si /\ si < ei /\ ei < eo
    /\ FunctionOf(p[so]) = "start_loop" /\ FunctionOf(p[si]) = "start_loop"
    /\ FunctionOf(p[ei]) = "end_loop" /\ FunctionOf(p[eo]) = "end_loop"
    /\ \A i \in DOMAIN p \ {so, si, ei, eo} : ~IsLoopStep(p[i])

IterationsOf(step) == step["params"]["iterations"].v

\* The 1-based positions of the program's start_loop and end_loop steps.
StartLoops == { i \in DOMAIN steps : FunctionOf(steps[i]) = "start_loop" }
EndLoops   == { i \in DOMAIN steps : FunctionOf(steps[i]) = "end_loop" }

\* C21: in a loop nested in a loop (N outer, M inner iterations, both >= 1)
\* the inner end_loop is dispatched with the inner start_loop's frame on top
\* of the outer one's, the outer end_loop with the outer frame alone; a run
\* that is neither stopped nor failed dispatches the inner body N*M times,
\* the inner start_loop and the outer-only body steps N times, the outer
\* start_loop once, and ends with an empty loop stack.
C21_NestedLoops ==
    \A so, si \in StartLoops : \A ei, eo \in EndLoops :
      (/\ NestedAt(steps, so, si, ei, eo)
       /\ IterationsOf(steps[so]) >= 1 /\ IterationsOf(steps[si]) >= 1) =>
        LET N == IterationsOf(steps[so])
            M == IterationsOf(steps[si])
        IN  /\ (pc = "exec" /\ current_step = ei - 1) =>
                  /\ Len(loop_stack) = 2
                  /\ loop_stack[1].start_index = so - 1
                  /\ loop_stack[2].start_index = si - 1
            /\ (pc = "exec" /\ current_step = eo - 1) =>
                  /\ Len(loop_stack) = 1
                  /\ loop_stack[1].start_index = so - 1
            /\ RanToEnd =>
                  /\ Dispatched(so - 1) = 1
                  /\ Dispatched(si - 1) = N
                  /\ Dispatched(ei - 1) = N * M
                  /\ Dispatched(eo - 1) = N
                  /\ \A b \in (si + 1)..(ei - 1) : Dispatched(b - 1) = N * M
                  /\ \A o \in ((so + 1)..(si - 1)) \cup ((ei + 1)..(eo - 1)) :
                       Dispatched(o - 1) = N
                  /\ \A o \in (eo + 1)..Len(steps) : Dispatched(o - 1) = 1
                  /\ loop_stack = << >>

\* Three outer iterations of two inner ones, with steps before, in, after
\* the inner loop and after the outer one, ran to the end.
C21_Witness ==
    /\ RanToEnd
    /\ Len(steps) = 8
    /\ NestedAt(steps, 1, 3, 5, 7)
    /\ IterationsOf(steps[1]) = 3 /\ IterationsOf(steps[3]) = 2

\* C24: when a step is dispatched the step index is that of a step of the
\* program, the frames on the loop stack have start indices that increase
\* strictly from bottom to top and are all below the step index, and the
\* stack is no deeper than the program has start_loop steps; executing a step
\* never moves the step index forward (end_loop may move it back).
C24_StackOrdered ==
    /\ [](pc = "exec" =>
            /\ current_step \in 0..(Len(steps) - 1)
            /\ \A i, j \in DOMAIN loop_stack :
                 i < j => loop_stack[i].start_index < loop_stack[j].start_index
            /\ \A i \in DOMAIN loop_stack :
                 /\ loop_stack[i].start_index < current_step
                 /\ loop_stack[i].start_index + 1 \in StartLoops
            /\ Len(loop_stack) <= Cardinality(StartLoops))
    /\ [][pc = "exec" => current_step' <= current_step]_vars

\* A step is dispatched after a rewind, inside two loops.
C24_Witness ==
    /\ pc = "exec" /\ Len(loop_stack) = 2
    /\ loop_stack[2].current_iteration >= 1
    /\ loop_stack[1].current_iteration >= 1

\* C26: an end_loop executed with an empty loop stack changes neither the
\* step index nor the stack, emits nothing and calls nothing, and the worker
\* goes on to advance.
C26_EndLoopOnEmptyStack ==
    [][(/\ pc = "exec" /\ pc' # pc
        /\ FunctionOf(steps[current_step + 1]) = "end_loop"
        /\ "params" \in DOMAIN steps[current_step + 1]
        /\ loop_stack = << >>) =>
          (pc' = "advance" /\ UNCHANGED <<current_step, loop_stack, notes, req, cache>>)]_vars

\* An end_loop in first place was executed and the step after it dispatched.
C26_Witness ==
    /\ pc = "exec" /\ current_step = 1 /\ loop_stack = << >>
    /\ FunctionOf(steps[1]) = "end_loop"
    /\ Count("error") = 0 /\ Count("step_changed") = 2

\* The program is one matched start_loop ... end_loop pair at s < e, with
\* any iteration count, every other step being a non-loop step.
OneLoopAt(p, s, e) ==
    /\ s \in DOMAIN p /\ e \in DOMAIN p /\ s < e
    /\ FunctionOf(p[s]) = "start_loop" /\ FunctionOf(p[e]) = "end_loop"
    /\ \A i \in DOMAIN p \ {s, e} : ~IsLoopStep(p[i])

\* C27: with an iteration count N <= 0 no step of the program is dispatched
\* twice (there is no rewind), the first end_loop leaves the loop stack
\* empty, and a run that is neither stopped nor failed has dispatched every
\* step, the body included, exactly once.
C27_NonPositiveCountRunsOnce ==
    \A s, e \in DOMAIN steps :
      (OneLoopAt(steps, s, e) /\ IterationsOf(steps[s]) <= 0) =>
        /\ \A i \in DOMAIN steps : Dispatched(i - 1) <= 1
        /\ (pc = "advance" /\ current_step = e - 1) => loop_stack = << >>
        /\ RanToEnd => \A i \in DOMAIN steps : Dispatched(i - 1) = 1

\* A loop of zero iterations with a body and a step after it ran to the end.
C27_Witness ==
    /\ RanToEnd
    /\ OneLoopAt(steps, 1, 3) /\ IterationsOf(steps[1]) = 0
    /\ Len(steps) = 4

C5_FinishedOnceAndLast ==
    /\ Count("finished") <= 1
    /\ \A i \in NotesOf("finished") : i = Len(notes)
    /\ pc = "done" => Count("finished") = 1

\* A run that failed in a step after dispatching it has exited.
C5_Witness ==
    /\ pc = "done"
    /\ Count("error") = 1
    /\ Count("step_changed") >= 1
    /\ notes[Len(notes)].kind = "finished"

\* ------------------------------------------------------------- pause, resume
\* The worker is in the pause branch of its loop (lines 141-143).
InPauseBranch == pc = "pause_wait"

\* C12 as stated: while the pause flag stays set from the start of a loop
\* iteration (and stop is not set) the worker emits no step-changed and
\* makes no hardware call; the pause branch leaves the step index alone, so
\* no step is skipped or repeated; and once resume() has cleared the flag the
\* worker dispatches the step it was about to execute.
C12_AsStated ==
    /\ [][(pc \in {"body", "pause_wait"} /\ pause_event /\ pc' # pc) =>
            (notes' = notes /\ req' = req /\ current_step' = current_step
             /\ loop_stack' = loop_stack)]_vars
    /\ ((InPauseBranch /\ ~pause_event /\ ~stop_event)
          ~> (pc = "exec" \/ pause_event \/ stop_event))

\* C23 as stated: every run terminates. Whatever the loop steps of the
\* program, if from some point on the run is no longer paused then the
\* interpreter loop exits and finished is emitted.
C23_AsStated == (<>[](~pause_event)) => <>(pc = "done")

\* C13: resume() changes only the pause flag: where the flag goes from set
\* to clear, no connection method is called (no parameter resent, no
\* startPump), and the stop flag, the step index, the loop stack, the cache,
\* the worker's place and the notifications are as they were.
C13_ResumeClearsFlagOnly ==
    [][(pause_event /\ ~pause_event') =>
         UNCHANGED <<stop_event, current_step, loop_stack, cache, req,
                     uiCalls, notes, pc>>]_vars

\* A run that was paused and resumed went on to execute a step.
C13_Witness ==
    /\ "pausePump" \in uiCalls /\ ~pause_event /\ ~stop_event
    /\ pc = "advance"
    /\ \E i \in NotesOf("step_changed") : notes[i].at >= 1

\* C14: if stop() is called while the run is paused, the worker's loop exits
\* and finished is emitted, with no resume() needed: from every state with
\* both flags set, the run is done eventually unless the flag is cleared.
C14_StopWhilePausedFinishes ==
    (stop_event /\ pause_event) ~> (pc = "done" \/ ~pause_event)

\* stop() was called on a paused run, which then finished with steps left
\* and the pause flag still set.
C14_Witness ==
    /\ stopWhilePaused /\ pause_event /\ stop_event
    /\ pc = "done"
    /\ current_step < Len(steps)
    /\ Count("error") = 0
    /\ Count("finished") = 1

\* C20: a wait step makes no hardware call and leaves the cache, the loop
\* stack and the step index unchanged; when its sleep returns (a number that
\* is not negative) the worker goes on to advance, and advancing moves to the
\* next step.
WaitReturns(step) ==
    /\ "params" \in DOMAIN step
    /\ LET d == ParamsGet(step["params"], "time", IntV(1))
       IN  d.t # "str" /\ d.v >= 0
C20_WaitTouchesNothing ==
    [][/\ (pc = "exec" /\ pc' # pc /\ FunctionOf(steps[current_step + 1]) = "wait") =>
           /\ UNCHANGED <<cache, loop_stack, current_step, req>>
           /\ WaitReturns(steps[current_step + 1]) => pc' = "advance"
       /\ (pc = "advance" /\ pc' # pc) =>
           (current_step' = current_step + 1 /\ pc' = "while")]_vars

\* A wait step in second place has been executed and advanced from.
C20_Witness ==
    /\ pc = "while" /\ current_step = 2 /\ Len(steps) >= 2
    /\ FunctionOf(steps[2]) = "wait" /\ WaitReturns(steps[2])
    /\ Count("error") = 0

\* C28 as stated: no call that the worker makes on the connection after
\* stop() (stop_event set, stopPump issued) reaches hardware.
C28_AsStated ==
    \A k \in DOMAIN req :
        (req[k].afterStop /\ req[k].m # "reset_cache") => ~req[k].invoked

\* The notifications of exceptions raised while a step was executed.
StepPhases == {"exec", "op_units", "op_diameter", "op_mode", "op_volume"}
StepErrors == { i \in NotesOf("error") : notes[i].phase \in StepPhases }

\* C6: when the execution of a step raises (a failing hardware call, a bad
\* parameter value, a malformed step record), exactly one error is emitted
\* for the run, it carries the 1-based number of the failing step, and no
\* later step is dispatched (nothing but finished follows the error).
C6_AsStated ==
    \A i \in StepErrors :
        /\ Count("error") = 1
        /\ notes[i].step = notes[i].at + 1
        /\ \A j \in DOMAIN notes : j > i => notes[j].kind = "finished"

\* ------------------------------------------------------------ pump steps
\* The worker's requests on the connection while it executed step index i.
StepRequests(i) ==
    { k \in DOMAIN req : req[k].at = i /\ req[k].phase \in StepPhases }
Requested(i, m, arg) ==
    \E k \in StepRequests(i) : req[k].m = m /\ req[k].arg = Scalar(arg)

\* Step index i was executed to its end and no hardware call raised.
StepExecuted(i) ==
    /\ pc = "done"
    /\ Dispatched(i) >= 1
    /\ \A k \in DOMAIN req : ~req[k].raised

ParamOf(step, k) == step["params"][k].v

\* C7: executing pump_volume{volume=V, rate=R} requests setMode(1) when V < 0
\* and setMode(0) otherwise, and sends abs(R) through setRate.
C7_AsStated ==
    \A i \in DOMAIN steps :
      (StepExecuted(i - 1) /\ FunctionOf(steps[i]) = "pump_volume") =>
        /\ Requested(i - 1, "setMode",
                     IF ParamOf(steps[i], "volume") < 0 THEN 1 ELSE 0)
        /\ Requested(i - 1, "setRate", Abs(ParamOf(steps[i], "rate")))

\* C8: for pump_time{time=T, rate=R} the volume handed to the pump operation
\* has magnitude abs(R) * T / 60 and never the sign opposite to R's, and the
\* mode requested from it is infuse (1) exactly when R < 0.
C8_AsStated ==
    \A i \in DOMAIN steps :
      FunctionOf(steps[i]) = "pump_time" =>
        LET T == ParamOf(steps[i], "time")
            R == ParamOf(steps[i], "rate")
        IN  /\ (current_step = i - 1 /\ pc \in StepPhases \ {"exec"}) =>
                /\ Abs(op.volume60) = Abs(R) * T
                /\ op.volume60 * R >= 0
            /\ \A k \in StepRequests(i - 1) :
                 req[k].m = "setMode" =>
                     req[k].arg = Scalar(IF R < 0 THEN 1 ELSE 0)

\* C17 as stated: a pump_volume step whose hardware calls all succeed emits
\* no error, requests startPump exactly once, after setUnits, setDiameter,
\* setMode, setVolume and setRate have been requested in that step, and the
\* step index then moves past the step.
C17_AsStated ==
    \A i \in DOMAIN steps :
      (StepExecuted(i - 1) /\ FunctionOf(steps[i]) = "pump_volume") =>
        LET starts == { k \in StepRequests(i - 1) : req[k].m = "startPump" }
        IN  /\ Count("error") = 0
            /\ Cardinality(starts) = 1
            /\ \A k \in starts :
                 \A m \in {"setUnits", "setDiameter", "setMode", "setVolume", "setRate"} :
                   \E j \in StepRequests(i - 1) : j < k /\ req[j].m = m
            /\ current_step >= i

\* ------------------------------------------------------------ the main window
\* The worker's setUnits and setDiameter of _initialize_pump_state.
InitRequests ==
    { k \in DOMAIN req : req[k].phase \in {"init_units", "init_diameter"} }

C15_OneWorkerAtATime ==
    /\ ~stale
    /\ WorkerActive => is_running
    /\ (~is_running /\ pc # "none") => (pc = "done" /\ handled = Len(notes))

\* A run that was paused and then stopped is over and its finished
\* notification has been handled: Play may start the next worker.
C15_Witness ==
    /\ pc = "done" /\ ~is_running /\ connected
    /\ "pausePump" \in uiCalls /\ stop_event
    /\ Count("finished") = 1 /\ handled = Len(notes)

\* C29 as stated: is_paused implies is_running, and while the window counts
\* a run as active is_paused is true exactly when the executor's pause flag
\* is set.
C29_AsStated ==
    /\ is_paused => is_running
    /\ is_running => (is_paused <=> pause_event)

\* C22: while a run is active (from the start of the worker to its finished
\* notification) no step of the model changes the list the worker reads:
\* its length, its order and its contents stay what they were.
C22_AsStated == [][WorkerActive => steps' = steps]_vars

\* C30 as stated: while the window is disconnected the worker sends no
\* command to hardware and the run controls issue no pausePump or stopPump.
C30_AsStated ==
    [][~connected =>
         /\ Len(req') > Len(req) => ~req'[Len(req')].invoked
         /\ uiCalls' \subseteq uiCalls]_vars

\* C16 as stated: while a worker is inside execute_steps, a step of the UI
\* thread neither changes the cache nor calls a parameter-setting method on
\* the connection wrapper.
UiSetPhases == {"ui_units", "ui_diameter", "ui_mode"}
C16_AsStated ==
    [][(WorkerActive /\ pc' = pc) =>
         (cache' = cache /\ ~(uipc \in UiSetPhases /\ uipc' # uipc))]_vars

\* C18 as stated: a jog press while connected runs the pump operation with a
\* volume of magnitude 50 and no completion wait, and when the operation
\* returns with no hardware call having failed, startPump has been issued; a
\* release while connected issues stopPump; without a connection neither
\* issues a hardware call.
C18_AsStated ==
    [][/\ (StartJog /\ connected) =>
             (uiop'.volume60 \in {60 * JogVolume, -60 * JogVolume} /\ ~uiop'.wait)
       /\ (uiop.by = "jog" /\ uipc = "ui_volume" /\ uipc' = "idle") =>
             uiSent' = "startPump"
       /\ (StopJog /\ connected) => uiSent' = "stopPump"
       /\ ((StartJog \/ StopJog) /\ ~connected) =>
             (uiSent' = "" /\ cache' = cache /\ uipc' = "idle")]_vars

\* ------------------------------------------------------------ the vendor GUI
\* C19 as stated: after a run was started, the Pause button alternates: no
\* two presses in a row issue pausePump, a press after a pause issues
\* startPump, and the button shows 'Unpause' after a pausePump and 'Pause'
\* after a startPump.
C19_AsStated ==
    /\ \A i \in 1..(Len(vCalls) - 1) :
         vCalls[i] = "pausePump" =>
             vCalls[i + 1] \in {"startPump", "stopPump"}
    /\ vCalls # << >> =>
         pauseBtn = (IF vCalls[Len(vCalls)] = "pausePump" THEN "Unpause" ELSE "Pause")

\* ------------------------------------------------------------ the program file
\* C9: loading the file that save_program wrote (and nothing has rewritten
\* since) yields the saved step list: same length, same order, the same
\* function and params in every position.
C9_SaveLoadRoundTrip ==
    (lastOp = "load" /\ saved.valid) => steps = saved.steps

\* A list of two different steps was saved and loaded back.
C9_Witness ==
    /\ lastOp = "load" /\ saved.valid
    /\ Len(saved.steps) = 2
    /\ saved.steps[1] # saved.steps[2]
    /\ steps = saved.steps

\* ---------------------------------------------------------------- the cache
\* C1 as stated: a call of a cacheable method invokes the hardware method if
\* and only if its arguments differ from those of the most recent call of that
\* method that reached hardware since the last reset (or there is none), and a
\* call that does not invoke hardware returns no result.
C1_AsStated ==
    lastCall.name \in cacheable_methods =>
        /\ lastCall.invoked <=> lastCall.pv \notin lastCall.prevReached
        /\ ~lastCall.invoked => lastCall.result = "None"

\* C1 amended: a call of a cacheable method invokes the hardware method if and
\* only if its arguments differ from those of the most recent call under the
\* same cache key (the method, and the current pump of a multipump
\* connection) that hardware completed without raising since the last reset
\* (or there is none); a call with equal arguments returns no result.
C1_CacheContract ==
    lastCall.name \in cacheable_methods =>
        /\ lastCall.invoked <=> lastCall.pv \notin lastCall.prevCompleted
        /\ ~lastCall.invoked => lastCall.result = "None" /\ ~lastCall.raised

\* A call of a cacheable method was answered from the cache.
C1_Witness ==
    /\ lastCall.name \in cacheable_methods
    /\ ~lastCall.invoked
    /\ lastCall.pv \in lastCall.prevCompleted

\* C2: after reset_cache, the next call of each cacheable method invokes the
\* hardware method whatever its arguments, also when they equal the value the
\* cache held for that method before the reset.
C2_ResetForcesHardware ==
    (lastCall.afterReset /\ lastCall.first /\ lastCall.name \in cacheable_methods)
        => lastCall.invoked

\* The first call after a reset carried the value cached before the reset.
C2_Witness ==
    /\ lastCall.afterReset /\ lastCall.first
    /\ lastCall.name \in cacheable_methods
    /\ lastCall.pv \in lastCall.preResetValue
    /\ lastCall.invoked

\* C25: a call of a cacheable method in which the hardware method raises
\* leaves the cache as it was and raises; the cache holds, under each key,
\* exactly the arguments of the last call under that key that hardware
\* completed since the last reset; and a failed call repeated with the same
\* arguments under the same key reaches hardware again.
C25_FailedCallNotCached ==
    /\ (lastCall.name \in cacheable_methods /\ lastCall.raised) =>
          (lastCall.invoked /\ lastCall.cacheKept /\ lastCall.result = "raised")
    /\ \A key \in DOMAIN cache : key \in DOMAIN completed /\ cache[key] = completed[key]
    /\ \A key \in DOMAIN completed :
          key[1] \in cacheable_methods => key \in DOMAIN cache
    /\ (lastCall.name \in cacheable_methods /\ lastCall.retry) => lastCall.invoked

\* A call failed over a filled cache and was repeated: it reached hardware
\* again, and this time hardware completed it.
C25_Witness ==
    /\ lastCall.name \in cacheable_methods
    /\ lastCall.retry /\ lastCall.invoked /\ ~lastCall.raised
    /\ ~lastCall.cacheWasEmpty

\* C10: every call of a method that is not cacheable invokes the connection's
\* method, whatever the cache holds and however often it is repeated with the
\* same arguments, and leaves the cache unchanged.
C10_PassThrough ==
    lastCall.name \in PassThroughMethods =>
        lastCall.invoked /\ lastCall.cacheKept

\* A pass-through call repeated with the same arguments over a filled cache.
C10_Witness ==
    /\ lastCall.name \in PassThroughMethods
    /\ lastCall.repeated
    /\ ~lastCall.cacheWasEmpty
    /\ lastCall.invoked

=============================================================================
